---------------------------- MODULE Spec2Model ----------------------------
(***************************************************************************)
(* A model of the early-experience pipeline:                               *)
(*                                                                         *)
(*   - data_pipeline/collector.py : collect_episodes, the episode loop     *)
(*     with its domain guard and its recovery from failed actions          *)
(*     (specification Spec);                                                *)
(*   - models/behavior_prior.py   : BehaviorPrior, the fitting pass, the   *)
(*     snapshot (save / load) and the sampling and repair operations       *)
(*     (specification SpecPrior).                                          *)
(*                                                                         *)
(* Python values are modelled as follows.  A str that the code inspects    *)
(* (a URL's netloc, a whitelist suffix) is a sequence of characters; a     *)
(* str that the code only compares is a TLA+ string.  None is a tagged     *)
(* value.  A dict is a function from its keys.  The module-level random    *)
(* generator is one variable, rng, seeded by random.seed and advanced by   *)
(* every draw; it is a small linear congruential generator standing for    *)
(* the Mersenne Twister: what the model keeps of it is that the stream of  *)
(* draws is a function of the seed and of the number of draws consumed.    *)
(***************************************************************************)
EXTENDS Integers, Sequences, FiniteSets, TLC

VARIABLES
    \* ---- collect_episodes (collector.py) ----
    cfg,            \* CollectConfig
    screen,         \* what computer.screen_size() answers: <<W, H>>
    pc,             \* position in collect_episodes
    epi,            \* loop variable of the episode loop (0-based)
    t,              \* loop variable of the step loop (1-based)
    obs,            \* local `obs`: the current Observation
    action,         \* local `action`: unbound until the first sampled action
    steps,          \* local `steps` of the running episode
    episodes_meta,  \* local `episodes_meta`
    saved,          \* episode ids whose episode.json has been written
    rng,            \* state of the module-level random generator
    now,            \* clock read by _ts_ms
    held,           \* number of environment instances inside their `with`
    acquired,       \* number of __enter__ calls so far
    released,       \* number of __exit__ calls so far
    notes,          \* per recorded step of the running episode: what happened
    notes_meta,     \* the notes of the finished episodes
    \* ---- BehaviorPrior (behavior_prior.py) ----
    bp,             \* the BehaviorPrior object
    orig,           \* the BehaviorPrior that was saved, once one was loaded
    ppc,            \* position in the prior's life cycle
    corpus,         \* the actions fitted so far, in order
    heap,           \* the dict objects of a validate_or_adjust call
    call            \* the last sampling / repair call and its result

cvars == <<cfg, screen, pc, epi, t, obs, action, steps, episodes_meta, saved,
           rng, now, held, acquired, released, notes, notes_meta>>
\* the collector's variables other than the random generator
cvarsButRng == <<cfg, screen, pc, epi, t, obs, action, steps, episodes_meta,
                saved, now, held, acquired, released, notes, notes_meta>>
pvars == <<bp, orig, ppc, corpus, heap, call>>
vars  == <<cvars, pvars>>

-----------------------------------------------------------------------------
(* Bounds of the model.                                                    *)

\* cfg.episodes * cfg.max_steps_per_episode is at most this
MaxTotalSteps == 3
\* cfg.seed ranges over 0 .. MaxSeed
MaxSeed == 1
\* a fitted corpus holds at most this many steps
MaxFit == 3
\* the corpus behind a prior that is asked to sample holds at most this many
MaxServeFit == 2
\* a draw behind random.randint / random.choice ranges over 0 .. MaxDraw
MaxDraw == 3
\* the most entries of an episodes directory
MaxEpisodes == 2
\* the longest corpus of a prior that is fitted a second time
MaxRefit == 1

-----------------------------------------------------------------------------
(* Generic helpers.                                                        *)

Max(a, b) == IF a >= b THEN a ELSE b
Min(a, b) == IF a <= b THEN a ELSE b

\* the empty dict {}
EmptyDict == [k \in {} |-> 0]

\* Python's str.endswith
EndsWith(s, suffix) ==
    /\ Len(suffix) <= Len(s)
    /\ SubSeq(s, Len(s) - Len(suffix) + 1, Len(s)) = suffix

-----------------------------------------------------------------------------
(* URLs.  A URL is what urlparse makes of it: either urlparse raises       *)
(* (ValueError, e.g. "http://[::1") or it returns a netloc.                 *)

Url(netloc, raises) == [netloc |-> netloc, parse_raises |-> raises]

\* https://a.c/ : the configured initial URL, on the whitelisted domain
UrlHome  == Url(<<"a", ".", "c">>, FALSE)
\* https://e.c/ : a host outside the whitelist
UrlEvil  == Url(<<"e", ".", "c">>, FALSE)
\* "not a url" : no scheme, so urlparse finds no netloc
UrlNoHost == Url(<<>>, FALSE)
\* "http://[::1" : urlparse raises
UrlBad   == Url(<<>>, TRUE)

\* the urls of the States the environment's operations return
Urls == {UrlHome, UrlEvil, UrlNoHost, UrlBad}
\* the urls of the State open_web_browser returns
OpenUrls == {UrlHome, UrlEvil}

\* Optional[list[str]]
NoneList     == [isNone |-> TRUE,  list |-> <<>>]
SomeList(l)  == [isNone |-> FALSE, list |-> l]

Whitelists == {NoneList, SomeList(<<>>), SomeList(<< <<"a", ".", "c">> >>)}

ScreenSizes == {<<1440, 900>>, <<15, 60>>}

\* `not whitelist`
Falsy(whitelist) == whitelist.isNone \/ whitelist.list = <<>>

DomainAllowed(url, whitelist) ==
    IF Falsy(whitelist) THEN TRUE
    ELSE IF url.parse_raises THEN TRUE
    ELSE \E i \in 1..Len(whitelist.list) : EndsWith(url.netloc, whitelist.list[i])

-----------------------------------------------------------------------------
(* The random generator.                                                   *)

RngSeed(seed) == (seed * 13 + 5) % 101
RngNext(s)    == (s * 7 + 3) % 101

\* the generator after n draws
RECURSIVE RngAdvance(_, _)
RngAdvance(s, n) == IF n = 0 THEN s ELSE RngAdvance(RngNext(s), n - 1)

\* the states the generator can be in
RngStates == 0..100

\* random.choice(seq) with the generator already advanced to s
Choice(seq, s) == seq[(s % Len(seq)) + 1]
\* random.randint(a, b) with the generator already advanced to s
RandInt(a, b, s) == a + (s % (b - a + 1))

-----------------------------------------------------------------------------
(* ActionRecord and the random policy.                                     *)

ActionRecord(name, args) == [name |-> name, args |-> args]

acts == <<"scroll_document", "scroll_at", "hover_at", "click_at",
          "wait_5_seconds", "go_back", "go_forward", "search">>

\* _random_action: the action sampled and the generator after it
RandomAction(s0, size) ==
    LET W  == size[1]
        H  == size[2]
        s1 == RngNext(s0)
        s2 == RngNext(s1)
        s3 == RngNext(s2)
        s4 == RngNext(s3)
        s5 == RngNext(s4)
        name == Choice(acts, s1)
    IN  IF name \in {"hover_at", "click_at"} THEN
            [action |-> ActionRecord(name,
                          [x |-> RandInt(10, Max(10, W - 10), s2),
                           y |-> RandInt(80, Max(80, H - 10), s3)]),
             rng |-> s3]
        ELSE IF name = "scroll_at" THEN
            [action |-> ActionRecord(name,
                          [x |-> RandInt(10, Max(10, W - 10), s2),
                           y |-> RandInt(120, Max(120, H - 10), s3),
                           direction |-> Choice(<<"up", "down">>, s4),
                           magnitude |-> Choice(<<200, 400, 800>>, s5)]),
             rng |-> s5]
        ELSE IF name = "scroll_document" THEN
            [action |-> ActionRecord(name,
                          [direction |-> Choice(<<"up", "down">>, s2)]),
             rng |-> s2]
        ELSE IF name = "wait_5_seconds" THEN
            [action |-> ActionRecord(name, EmptyDict), rng |-> s1]
        ELSE IF name \in {"go_back", "go_forward", "search"} THEN
            [action |-> ActionRecord(name, EmptyDict), rng |-> s1]
        ELSE
            [action |-> ActionRecord("wait_5_seconds", EmptyDict), rng |-> s1]

\* the environment operation the dispatch chain calls for an action
DispatchOp(a) ==
    IF a.name \in {"open_web_browser", "click_at", "hover_at", "type_text_at",
                   "scroll_document", "scroll_at", "wait_5_seconds", "go_back",
                   "go_forward", "search", "navigate", "key_combination",
                   "drag_and_drop"}
    THEN a.name
    ELSE "wait_5_seconds"

\* the arguments the dispatch chain subscripts for a kind (action.args[...]):
\* the ones whose absence raises KeyError at execution
RequiredArgs(name) ==
    IF name \in {"click_at", "hover_at", "type_text_at"} THEN {"x", "y"}
    ELSE IF name = "scroll_document" THEN {"direction"}
    ELSE IF name = "scroll_at" THEN {"x", "y", "direction", "magnitude"}
    ELSE IF name = "navigate" THEN {"url"}
    ELSE IF name = "key_combination" THEN {"keys"}
    ELSE IF name = "drag_and_drop" THEN {"x", "y", "destination_x", "destination_y"}
    ELSE {}

-----------------------------------------------------------------------------
(* Observation, StepRecord, EpisodeRecord.                                 *)

\* _save_screenshot / _save_next_screenshot: the path written
ImagePath(ep, step_idx, suffix) == [ep |-> ep, step |-> step_idx, suffix |-> suffix]

Observation(url, ts, image_path) ==
    [url |-> url, timestamp_ms |-> ts, image_path |-> image_path, dom_path |-> "None"]

StepRecord(step_index, o, a, next_o) ==
    [step_index |-> step_index, obs |-> o, action |-> a, next_obs |-> next_o,
     meta |-> EmptyDict]

EpisodeRecord(episode_id, s) == [episode_id |-> episode_id, steps |-> s]

\* the local `action`: unbound, or bound to an ActionRecord
Unbound  == [bound |-> FALSE, val |-> ActionRecord("wait_5_seconds", EmptyDict)]
Bound(a) == [bound |-> TRUE, val |-> a]

\* mutant: the guarded step is recorded as a reopening of the browser
RecordedActionReopen(a, c) ==
    IF a.bound THEN a.val
    ELSE ActionRecord("open_web_browser", EmptyDict)

\* action if 'action' in locals() else ActionRecord(name='navigate', ...)
RecordedAction(a, c) ==
    IF a.bound THEN a.val
    ELSE ActionRecord("navigate", [url |-> c.initial_url])


-----------------------------------------------------------------------------
(* Values of the behaviour prior.                                          *)
(*                                                                         *)
(* A float is an exact rational [n, d] in lowest terms, d > 0.  A standard *)
(* deviation is the math.sqrt of a rational: std_x and std_y hold the      *)
(* radicand (the variance), which determines the float.  An Optional       *)
(* carries isNone.  A JSON value (an argument of an action) is tagged with *)
(* its Python type.                                                        *)

RECURSIVE Gcd(_, _)
Gcd(a, b) == IF b = 0 THEN a ELSE Gcd(b, a % b)

Abs(a) == IF a < 0 THEN -a ELSE a

Frac(n, d) ==
    LET g == Gcd(Abs(n), Abs(d))
        sgn == IF d < 0 THEN -1 ELSE 1
    IN  [n |-> sgn * (n \div g), d |-> sgn * (d \div g)]

FInt(i)    == [n |-> i, d |-> 1]
FAdd(a, b) == Frac(a.n * b.d + b.n * a.d, a.d * b.d)
FSub(a, b) == Frac(a.n * b.d - b.n * a.d, a.d * b.d)
FMul(a, b) == Frac(a.n * b.n, a.d * b.d)
FDiv(a, i) == Frac(a.n, a.d * i)
FLe(a, b)  == a.n * b.d <= b.n * a.d
FMax(a, b) == IF FLe(a, b) THEN b ELSE a
\* int(f) for f >= 0
FTrunc(a)  == a.n \div a.d

\* Optional[float]
NoneF    == [isNone |-> TRUE, n |-> 0, d |-> 1]
SomeF(f) == [isNone |-> FALSE, n |-> f.n, d |-> f.d]
Val(o)   == [n |-> o.n, d |-> o.d]

\* JSON values
IntV(i) == [ty |-> "int", i |-> i, s |-> ""]
StrV(x) == [ty |-> "str", i |-> 0, s |-> x]
NoneV   == [ty |-> "none", i |-> 0, s |-> ""]
\* a non-empty list, such as ["up"]
ListV   == [ty |-> "list", i |-> 0, s |-> ""]

\* dict.get(key)
Get(d, key) == IF key \in DOMAIN d THEN d[key] ELSE NoneV
\* truth value of a JSON value
Truthy(v) ==
    \/ v.ty = "int" /\ v.i # 0
    \/ v.ty = "str" /\ v.s # ""
    \/ v.ty = "list"
\* a or b
Or(a, b) == IF Truthy(a) THEN a ELSE b
\* isinstance(v, (int, float))
IsNumber(v) == v.ty = "int"
\* isinstance(v, int)
IsInt(v) == v.ty = "int"
\* isinstance(v, str)
IsStr(v) == v.ty = "str"
\* hash(v) raises TypeError
Unhashable(v) == v.ty = "list"

\* d with d[key] = v
Put(d, key, v) == [k \in DOMAIN d \cup {key} |-> IF k = key THEN v ELSE d[k]]

ClickableActions == {"click_at", "hover_at"}
CoordActions == {"click_at", "hover_at", "scroll_at", "drag_and_drop"}

\* Optional[Counter]: None, or the items in insertion order
NoneCounter     == [isNone |-> TRUE, items |-> <<>>]
Counter(items)  == [isNone |-> FALSE, items |-> items]
\* Optional[list]
NoneMags        == [isNone |-> TRUE, list |-> <<>>]
Mags(l)         == [isNone |-> FALSE, list |-> l]

\* counter[key] += 1
RECURSIVE Incr(_, _)
Incr(items, key) ==
    IF items = <<>> THEN << [k |-> key, c |-> 1] >>
    ELSE IF Head(items).k = key
         THEN << [k |-> key, c |-> Head(items).c + 1] >> \o Tail(items)
         ELSE << Head(items) >> \o Incr(Tail(items), key)

\* the attributes _m2x, _m2y, _n, which exist once a coordinate was fitted
NoWelford == [set |-> FALSE, m2x |-> FInt(0), m2y |-> FInt(0), n |-> 0]

\* ActionStats()
NewActionStats ==
    [count |-> 0, mean_x |-> NoneF, mean_y |-> NoneF, std_x |-> NoneF,
     std_y |-> NoneF, direction_counts |-> NoneCounter, magnitudes |-> NoneMags,
     welford |-> NoWelford]

\* BehaviorPrior(screen_size)
NewBehaviorPrior(size) ==
    [screen_w |-> size[1], screen_h |-> size[2], action_counts |-> EmptyDict,
     action_stats |-> EmptyDict]

-----------------------------------------------------------------------------
(* fit_from_episodes.                                                      *)

\* a step's action as read from episode.json: {"name": ..., "args": {...}}
JsonAction(name, args) == [name |-> name, args |-> args]

\* lines 106-107: args.get("x") or args.get("destination_x")
CoordOf(args, key, dkey) == Or(Get(args, key), Get(args, dkey))

\* lines 116-118, 122: one Welford update with _n already incremented to n;
\* std is the radicand of math.sqrt
Welford(mean, m2, n, x) ==
    LET dx    == FSub(FInt(x), mean)
        mean1 == FAdd(mean, FDiv(dx, n))
        m21   == FAdd(m2, FMul(dx, FSub(FInt(x), mean1)))
    IN  [mean |-> mean1, m2 |-> m21,
         std |-> FMax(FDiv(m21, Max(n - 1, 1)), FInt(1))]

\* lines 104-123
FitCoords(st, args) ==
    LET x == CoordOf(args, "x", "destination_x")
        y == CoordOf(args, "y", "destination_y")
    IN  IF ~(IsNumber(x) /\ IsNumber(y)) THEN st
        ELSE IF st.mean_x.isNone THEN
            [st EXCEPT !.mean_x = SomeF(FInt(x.i)), !.mean_y = SomeF(FInt(y.i)),
                       !.std_x = SomeF(FInt(0)), !.std_y = SomeF(FInt(0)),
                       !.welford = [set |-> TRUE, m2x |-> FInt(0),
                                    m2y |-> FInt(0), n |-> 1]]
        ELSE
            LET n  == st.welford.n + 1
                wx == Welford(Val(st.mean_x), st.welford.m2x, n, x.i)
                wy == Welford(Val(st.mean_y), st.welford.m2y, n, y.i)
            IN  [st EXCEPT !.mean_x = SomeF(wx.mean), !.mean_y = SomeF(wy.mean),
                           !.std_x = SomeF(wx.std), !.std_y = SomeF(wy.std),
                           !.welford = [set |-> TRUE, m2x |-> wx.m2,
                                        m2y |-> wy.m2, n |-> n]]

\* lines 126-137
FitScroll(st, name, args) ==
    LET dc0 == IF st.direction_counts.isNone THEN Counter(<<>>)
               ELSE st.direction_counts
        direction == Get(args, "direction")
        dc1 == IF IsStr(direction) THEN Counter(Incr(dc0.items, direction.s))
               ELSE dc0
        m0  == IF st.magnitudes.isNone THEN Mags(<<>>) ELSE st.magnitudes
        mag == Get(args, "magnitude")
        m1  == IF IsInt(mag) THEN Mags(Append(m0.list, mag.i)) ELSE m0
    IN  IF name = "scroll_at"
        THEN [st EXCEPT !.direction_counts = dc1, !.magnitudes = m1]
        ELSE [st EXCEPT !.direction_counts = dc1]

\* lines 93-137: one step of an episode
FitOne(b, a) ==
    IF ~Truthy(a.name) THEN b
    ELSE
        LET name == a.name.s
            c0  == IF name \in DOMAIN b.action_counts THEN b.action_counts[name]
                   ELSE 0
            st0 == IF name \in DOMAIN b.action_stats THEN b.action_stats[name]
                   ELSE NewActionStats
            st1 == [st0 EXCEPT !.count = @ + 1]
            st2 == IF name \in CoordActions THEN FitCoords(st1, a.args) ELSE st1
            st3 == IF name \in {"scroll_at", "scroll_document"}
                   THEN FitScroll(st2, name, a.args) ELSE st2
        IN  [b EXCEPT !.action_counts = Put(@, name, c0 + 1),
                      !.action_stats = Put(@, name, st3)]

\* lines 143, 145: max(dim * 0.2, 1.0), as the radicand of its square root
FallbackStd(dim) ==
    LET f == FMax(Frac(dim, 5), FInt(1)) IN FMul(f, f)

\* lines 139-145
Finalize(b) ==
    [b EXCEPT !.action_stats =
        [name \in DOMAIN b.action_stats |->
            LET st == b.action_stats[name]
            IN  IF st.count <= 1
                THEN [st EXCEPT
                        !.std_x = IF @.isNone THEN SomeF(FallbackStd(b.screen_w))
                                  ELSE @,
                        !.std_y = IF @.isNone THEN SomeF(FallbackStd(b.screen_h))
                                  ELSE @]
                ELSE st]]

-----------------------------------------------------------------------------
(* save and load.                                                          *)

\* lines 41-50: ActionStats.to_dict, the JSON object written
ToDict(st) ==
    [count |-> st.count, mean_x |-> st.mean_x, mean_y |-> st.mean_y,
     std_x |-> st.std_x, std_y |-> st.std_y,
     direction_counts |-> IF st.direction_counts.isNone THEN <<>>
                          ELSE st.direction_counts.items,
     magnitudes |-> IF st.magnitudes.isNone THEN <<>> ELSE st.magnitudes.list]

\* mutant: the magnitudes are not restored
FromDictNoMagnitudes(d) ==
    [count |-> d.count, mean_x |-> d.mean_x, mean_y |-> d.mean_y,
     std_x |-> d.std_x, std_y |-> d.std_y,
     direction_counts |-> Counter(d.direction_counts),
     magnitudes |-> Mags(<<>>),
     welford |-> NoWelford]

\* lines 52-62: ActionStats.from_dict
FromDict(d) ==
    [count |-> d.count, mean_x |-> d.mean_x, mean_y |-> d.mean_y,
     std_x |-> d.std_x, std_y |-> d.std_y,
     direction_counts |-> Counter(d.direction_counts),
     magnitudes |-> Mags(d.magnitudes),
     welford |-> NoWelford]

\* lines 147-154: the snapshot document
Save(b) ==
    [screen_size |-> <<b.screen_w, b.screen_h>>,
     action_counts |-> b.action_counts,
     action_stats |-> [k \in DOMAIN b.action_stats |-> ToDict(b.action_stats[k])]]

\* lines 156-164
Load(d) ==
    [screen_w |-> d.screen_size[1], screen_h |-> d.screen_size[2],
     action_counts |-> d.action_counts,
     action_stats |-> [k \in DOMAIN d.action_stats |-> FromDict(d.action_stats[k])]]

-----------------------------------------------------------------------------
(* action_prob.                                                            *)

\* sum(self.action_counts.values())
RECURSIVE SumCounts(_)
SumCounts(counts) ==
    IF DOMAIN counts = {} THEN 0
    ELSE LET k == CHOOSE k \in DOMAIN counts : TRUE
         IN  counts[k] + SumCounts([j \in DOMAIN counts \ {k} |-> counts[j]])

\* mutant: the count over the number of kinds observed
ActionProbOverKinds(b, name) ==
    LET total == Cardinality(DOMAIN b.action_counts)
    IN  IF total = 0 THEN FInt(1)
        ELSE Frac(IF name \in DOMAIN b.action_counts THEN b.action_counts[name]
                  ELSE 0, total)

\* lines 166-170
ActionProb(b, name) ==
    LET total == SumCounts(b.action_counts)
    IN  IF total = 0 THEN FInt(1)
        ELSE Frac(IF name \in DOMAIN b.action_counts THEN b.action_counts[name]
                  ELSE 0, total)

-----------------------------------------------------------------------------
(* Sampling and repair.  The draws of the random generator are inputs of   *)
(* the operators: gx, gy are int(random.gauss(...)), ud and um the draws   *)
(* behind random.randint and random.choice.                                *)

\* whether `st.std_x or ...` keeps st.std_x: neither None nor 0.0
StdTruthy(o) == ~o.isNone /\ o.n # 0

\* mutant: min(dim, v)
ClampWide(dim, v) == Max(0, Min(dim, v))

\* lines 182-183: max(0, min(dim - 1, v))
Clamp(dim, v) == Max(0, Min(dim - 1, v))

\* lines 178-181: int(random.gauss(mean, sigma)); with sigma = 0 the draw is
\* the mean, otherwise it is any integer g
GaussInt(mean, sigma, g) == IF sigma.n = 0 THEN FTrunc(mean) ELSE g

\* lines 172-184
SampleCoordinates(b, name, gx, gy) ==
    LET has == name \in DOMAIN b.action_stats
        st  == b.action_stats[name]
    IN  IF ~has \/ st.mean_x.isNone THEN
            <<Clamp(b.screen_w, b.screen_w \div 2),
              Clamp(b.screen_h, b.screen_h \div 2)>>
        ELSE
            LET sigma_x == IF StdTruthy(st.std_x) THEN Val(st.std_x)
                           ELSE FMul(Frac(b.screen_w, 5), Frac(b.screen_w, 5))
                sigma_y == IF StdTruthy(st.std_y) THEN Val(st.std_y)
                           ELSE FMul(Frac(b.screen_h, 5), Frac(b.screen_h, 5))
            IN  <<Clamp(b.screen_w, GaussInt(Val(st.mean_x), sigma_x, gx)),
                  Clamp(b.screen_h, GaussInt(Val(st.mean_y), sigma_y, gy))>>

RECURSIVE Total(_)
Total(items) == IF items = <<>> THEN 0 ELSE Head(items).c + Total(Tail(items))

\* mutant: `if r < cum`
RECURSIVE WalkStrict(_, _, _, _)
WalkStrict(items, r, cum, chosen) ==
    IF items = <<>> THEN chosen
    ELSE IF r < cum + Head(items).c THEN Head(items).k
         ELSE WalkStrict(Tail(items), r, cum + Head(items).c, chosen)

\* lines 194-200: the first bucket whose cumulative count reaches r
RECURSIVE Walk(_, _, _, _)
Walk(items, r, cum, chosen) ==
    IF items = <<>> THEN chosen
    ELSE IF r <= cum + Head(items).c THEN Head(items).k
         ELSE Walk(Tail(items), r, cum + Head(items).c, chosen)

\* lines 186-212: <<direction, magnitude>>
SampleScroll(b, at, ud, um) ==
    LET name == IF at THEN "scroll_at" ELSE "scroll_document"
        has  == name \in DOMAIN b.action_stats
        st   == b.action_stats[name]
        chosen ==
            IF has /\ ~st.direction_counts.isNone /\ st.direction_counts.items # <<>>
            THEN LET items == st.direction_counts.items
                     r == RandInt(1, Total(items), ud)
                 IN  Walk(items, r, 0, items[1].k)
            ELSE IF ~at THEN Choice(<<"up", "down">>, ud)
                 ELSE Choice(<<"up", "down", "left", "right">>, ud)
        mag ==
            IF at THEN
                IF has /\ ~st.magnitudes.isNone /\ st.magnitudes.list # <<>>
                THEN Choice(st.magnitudes.list, um)
                ELSE Choice(<<200, 400, 800>>, um)
            ELSE 0
    IN  <<chosen, mag>>

\* a reference to no object: None
NoneRef == 0

\* the reference of the next dict object created
NewRef(h) == Cardinality(DOMAIN h) + 1

\* line 220: out = dict(args) if args else {}
CopyArgs(h, args) ==
    [heap |-> [r \in DOMAIN h \cup {NewRef(h)} |->
                 IF r # NewRef(h) THEN h[r]
                 ELSE IF args # NoneRef /\ h[args] # EmptyDict THEN h[args]
                 ELSE EmptyDict],
     out |-> NewRef(h)]

\* mutant: the coordinates are always sampled anew
NeedCoordsAlways(b, x, y) == TRUE

\* lines 223-228
NeedCoords(b, x, y) ==
    IF ~IsNumber(x) \/ ~IsNumber(y) THEN TRUE
    ELSE x.i < 0 \/ y.i < 0 \/ x.i >= b.screen_w \/ y.i >= b.screen_h

\* lines 214-241: the heap after the call, the reference returned, and
\* whether the call raised instead of returning
ValidateOrAdjust(b, name, h, args, gx, gy, ud, um) ==
    LET c   == CopyArgs(h, args)
        o0  == c.heap[c.out]
        o1  == IF name \in CoordActions /\ NeedCoords(b, Get(o0, "x"), Get(o0, "y"))
               THEN LET xy == SampleCoordinates(b, name, gx, gy)
                    IN  Put(Put(o0, "x", IntV(xy[1])), "y", IntV(xy[2]))
               ELSE o0
        scroll    == name \in {"scroll_at", "scroll_document"}
        direction == Get(o1, "direction")
        mag       == Get(o1, "magnitude")
        dflt      == SampleScroll(b, name = "scroll_at", ud, um)
        raises    == scroll /\ Unhashable(direction)
        o2  == IF scroll /\ ~raises
                  /\ ~(IsStr(direction) /\ direction.s \in {"up", "down", "left", "right"})
               THEN Put(o1, "direction", StrV(dflt[1]))
               ELSE o1
        o3  == IF scroll /\ ~raises /\ name = "scroll_at" /\ ~IsInt(mag)
               THEN Put(o2, "magnitude", IntV(dflt[2]))
               ELSE o2
    IN  [heap |-> [c.heap EXCEPT ![c.out] = o3],
         out |-> IF raises THEN NoneRef ELSE c.out,
         raised |-> raises]

-----------------------------------------------------------------------------
(* collect_episodes.                                                       *)

CollectConfig(episodes, max_steps, whitelist, seed) ==
    [episodes |-> episodes, max_steps_per_episode |-> max_steps,
     initial_url |-> UrlHome, whitelist_domains |-> whitelist, seed |-> seed]

Configs ==
    {CollectConfig(e, n, w, s) :
        e \in 0..MaxTotalSteps, n \in 0..MaxTotalSteps, w \in Whitelists,
        s \in 0..MaxSeed}

\* what one recorded step did: whether the guard overrode it, the action
\* sampled for it (if any), the environment operations called, whether the
\* dispatch raised, and the url of the State the step ended with
Note(guarded, sampled, ops, failed, state_url) ==
    [guarded |-> guarded, sampled |-> sampled, ops |-> ops, failed |-> failed,
     state_url |-> state_url]

NoObs == Observation(UrlHome, 0, ImagePath(0, 0, "none"))

\* no call of a sampling or repair operation yet
NoCall == [op |-> "none"]

\* the prior is not part of a collection run
PriorIdle ==
    /\ bp = NewBehaviorPrior(<<0, 0>>)
    /\ orig = NewBehaviorPrior(<<0, 0>>)
    /\ ppc = "idle"
    /\ corpus = <<>>
    /\ heap = EmptyDict
    /\ call = NoCall

Init ==
    /\ cfg \in {c \in Configs :
                  c.episodes * c.max_steps_per_episode <= MaxTotalSteps}
    /\ screen \in ScreenSizes
    /\ pc = "start"
    /\ epi = 0
    /\ t = 0
    /\ obs = NoObs
    /\ action = Unbound
    /\ steps = <<>>
    /\ episodes_meta = <<>>
    /\ saved = <<>>
    /\ rng = 0
    /\ now = 0
    /\ held = 0
    /\ acquired = 0
    /\ released = 0
    /\ notes = <<>>
    /\ notes_meta = <<>>
    /\ PriorIdle

\* lines 119-123: seed the generator, create the output root
Start ==
    /\ pc = "start"
    /\ rng' = RngSeed(cfg.seed)
    /\ episodes_meta' = <<>>
    /\ epi' = 0
    /\ pc' = "episode"
    /\ UNCHANGED <<cfg, screen, t, obs, action, steps, saved, now, held,
                   acquired, released, notes, notes_meta, pvars>>

\* mutant: random.seed(cfg.seed) at the head of every episode
EnterEpisodeReseeds ==
    /\ pc = "episode"
    /\ epi < cfg.episodes
    /\ steps' = <<>>
    /\ notes' = <<>>
    /\ held' = held + 1
    /\ acquired' = acquired + 1
    /\ rng' = RngSeed(cfg.seed)
    /\ pc' = "open"
    /\ UNCHANGED <<cfg, screen, epi, t, obs, action, episodes_meta, saved,
                   now, released, notes_meta, pvars>>

\* lines 124-130: next episode: its id and directory, `steps = []`, and
\* __enter__ of the environment the factory made
EnterEpisode ==
    /\ pc = "episode"
    /\ epi < cfg.episodes
    /\ steps' = <<>>
    /\ notes' = <<>>
    /\ held' = held + 1
    /\ acquired' = acquired + 1
    /\ pc' = "open"
    /\ UNCHANGED <<cfg, screen, epi, t, obs, action, episodes_meta, saved, rng,
                   now, released, notes_meta, pvars>>

\* mutant: the environment is not released when the block raises
RaiseLeak ==
    /\ held' = held
    /\ released' = released
    /\ pc' = "raised"

\* line 130: an exception leaves the `with` block: __exit__ runs, then the
\* exception leaves collect_episodes, which returns nothing
Raise ==
    /\ held' = held - 1
    /\ released' = released + 1
    /\ pc' = "raised"

\* lines 132-135: open_web_browser returns a State; the initial Observation
OpenBrowser ==
    /\ pc = "open"
    /\ \E u \in OpenUrls :
         obs' = Observation(u, now, ImagePath(epi, 0, "obs"))
    /\ now' = now + 1
    /\ t' = 1
    /\ pc' = "steps"
    /\ UNCHANGED <<cfg, screen, epi, action, steps, episodes_meta, saved, rng,
                   held, acquired, released, notes, notes_meta, pvars>>

\* line 132: open_web_browser raises
OpenBrowserRaises ==
    /\ pc = "open"
    /\ Raise
    /\ UNCHANGED <<cfg, screen, epi, t, obs, action, steps, episodes_meta,
                   saved, rng, now, acquired, notes, notes_meta, pvars>>

\* mutant: the current observation is not advanced
RecordNoAdvance(a, u, note) ==
    LET next_obs == Observation(u, now, ImagePath(epi, t, "next_obs"))
    IN  /\ steps' = Append(steps, StepRecord(t, obs, RecordedAction(a, cfg), next_obs))
        /\ notes' = Append(notes, note)
        /\ obs' = obs
        /\ now' = now + 1
        /\ t' = t + 1
        /\ action' = a

\* lines 195-212: persist the transition, append the StepRecord, advance
Record(a, u, note) ==
    LET next_obs == Observation(u, now, ImagePath(epi, t, "next_obs"))
    IN  /\ steps' = Append(steps, StepRecord(t, obs, RecordedAction(a, cfg), next_obs))
        /\ notes' = Append(notes, note)
        /\ obs' = next_obs
        /\ now' = now + 1
        /\ t' = t + 1
        /\ action' = a

\* mutant: range(1, cfg.max_steps_per_episode)
InStepLoopShort == pc = "steps" /\ t < cfg.max_steps_per_episode

\* line 137: for t in range(1, cfg.max_steps_per_episode + 1)
InStepLoop == pc = "steps" /\ t <= cfg.max_steps_per_episode

\* lines 139-141, 195-212: the guard's navigate returns a State
GuardStep ==
    /\ InStepLoop
    /\ ~DomainAllowed(obs.url, cfg.whitelist_domains)
    /\ \E u \in Urls :
         Record(action, u, Note(TRUE, Unbound, <<"navigate">>, FALSE, u))
    /\ UNCHANGED <<cfg, screen, pc, epi, episodes_meta, saved, rng, held,
                   acquired, released, notes_meta, pvars>>

\* line 141: the guard's navigate raises
GuardStepRaises ==
    /\ InStepLoop
    /\ ~DomainAllowed(obs.url, cfg.whitelist_domains)
    /\ Raise
    /\ UNCHANGED <<cfg, screen, epi, t, obs, action, steps, episodes_meta,
                   saved, rng, now, acquired, notes, notes_meta, pvars>>

\* lines 144-189, 195-212: an action is sampled, its dispatch returns a State
SampleStep ==
    /\ InStepLoop
    /\ DomainAllowed(obs.url, cfg.whitelist_domains)
    /\ LET r == RandomAction(rng, screen)
       IN  /\ rng' = r.rng
           /\ \E u \in Urls :
                Record(Bound(r.action), u,
                       Note(FALSE, Bound(r.action), <<DispatchOp(r.action)>>, FALSE, u))
    /\ UNCHANGED <<cfg, screen, pc, epi, episodes_meta, saved, held, acquired,
                   released, notes_meta, pvars>>

\* mutant: the handler leaves the url of the observation before the action
RecoveredStale(current, before) == before

\* lines 190-193: the url of the State the failed step goes on with, given
\* the State current_state() returned and the observation before the action
Recovered(current, before) == current

\* mutant: the action is bound only when its dispatch returned
SampleStepRecoveredUnbound ==
    /\ InStepLoop
    /\ DomainAllowed(obs.url, cfg.whitelist_domains)
    /\ LET r == RandomAction(rng, screen)
       IN  /\ rng' = r.rng
           /\ \E u \in Urls :
                Record(action, Recovered(u, obs.url),
                       Note(FALSE, Bound(r.action),
                            <<DispatchOp(r.action), "current_state">>, TRUE, u))
    /\ UNCHANGED <<cfg, screen, pc, epi, episodes_meta, saved, held, acquired,
                   released, notes_meta, pvars>>

\* lines 144-193, 195-212: the dispatch raises, current_state returns a State
SampleStepRecovered ==
    /\ InStepLoop
    /\ DomainAllowed(obs.url, cfg.whitelist_domains)
    /\ LET r == RandomAction(rng, screen)
       IN  /\ rng' = r.rng
           /\ \E u \in Urls :
                Record(Bound(r.action), Recovered(u, obs.url),
                       Note(FALSE, Bound(r.action),
                            <<DispatchOp(r.action), "current_state">>, TRUE, u))
    /\ UNCHANGED <<cfg, screen, pc, epi, episodes_meta, saved, held, acquired,
                   released, notes_meta, pvars>>

\* line 95 (screen_size, outside the try) or line 193 (current_state, inside
\* the handler) raises
SampleStepRaises ==
    /\ InStepLoop
    /\ DomainAllowed(obs.url, cfg.whitelist_domains)
    /\ Raise
    /\ UNCHANGED <<cfg, screen, epi, t, obs, action, steps, episodes_meta,
                   saved, rng, now, acquired, notes, notes_meta, pvars>>

\* mutant: the episode is closed and persisted before its step loop has ended
ExitEpisodeEarly ==
    /\ pc = "steps"
    /\ held' = held - 1
    /\ released' = released + 1
    /\ episodes_meta' = Append(episodes_meta, EpisodeRecord(epi, steps))
    /\ notes_meta' = Append(notes_meta, notes)
    /\ saved' = Append(saved, epi)
    /\ epi' = epi + 1
    /\ pc' = "episode"
    /\ UNCHANGED <<cfg, screen, t, obs, action, steps, rng, now, acquired,
                   notes, pvars>>

\* lines 137, 130, 214-218: the step loop ends, __exit__ runs, the episode is
\* appended and its index file written
ExitEpisode ==
    /\ pc = "steps"
    /\ ~InStepLoop
    /\ held' = held - 1
    /\ released' = released + 1
    /\ episodes_meta' = Append(episodes_meta, EpisodeRecord(epi, steps))
    /\ notes_meta' = Append(notes_meta, notes)
    /\ saved' = Append(saved, epi)
    /\ epi' = epi + 1
    /\ pc' = "episode"
    /\ UNCHANGED <<cfg, screen, t, obs, action, steps, rng, now, acquired,
                   notes, pvars>>

\* lines 124, 220: the episode loop ends, episodes_meta is returned
Return ==
    /\ pc = "episode"
    /\ epi >= cfg.episodes
    /\ pc' = "done"
    /\ UNCHANGED <<cfg, screen, epi, t, obs, action, steps, episodes_meta,
                   saved, rng, now, held, acquired, released, notes,
                   notes_meta, pvars>>

Next ==
    \/ Start
    \/ EnterEpisode
    \/ OpenBrowser
    \/ OpenBrowserRaises
    \/ GuardStep
    \/ GuardStepRaises
    \/ SampleStep
    \/ SampleStepRecovered
    \/ SampleStepRaises
    \/ ExitEpisode
    \/ Return

Spec == Init /\ [][Next]_vars


-----------------------------------------------------------------------------
(* The life of a BehaviorPrior: constructed, fitted, saved and loaded,     *)
(* and asked to sample or to repair.                                       *)

\* the screen sizes a prior is constructed with
PriorScreens == {<<4, 3>>, <<2, 5>>, <<10, 5>>}

\* the actions found in the episode files of a corpus
FitActions ==
    {JsonAction(StrV("click_at"), [x |-> IntV(0), y |-> IntV(2)]),
     JsonAction(StrV("click_at"), [x |-> IntV(2), y |-> IntV(1)]),
     JsonAction(StrV("click_at"), [x |-> IntV(3), y |-> IntV(2)]),
     JsonAction(StrV("click_at"), EmptyDict),
     JsonAction(StrV("scroll_at"), [x |-> IntV(1), y |-> IntV(1),
                direction |-> StrV("up"), magnitude |-> IntV(200)]),
     JsonAction(StrV("scroll_document"), [direction |-> StrV("down")]),
     JsonAction(StrV("scroll_document"), [direction |-> StrV("diag")]),
     JsonAction(StrV("drag_and_drop"),
                [destination_x |-> IntV(1), destination_y |-> IntV(2)]),
     JsonAction(StrV("wait_5_seconds"), EmptyDict),
     JsonAction(NoneV, EmptyDict)}

\* the actions of the corpora behind a prior that is asked to sample
ServeActions ==
    {JsonAction(StrV("click_at"), [x |-> IntV(2), y |-> IntV(1)]),
     JsonAction(StrV("click_at"), [x |-> IntV(3), y |-> IntV(2)]),
     JsonAction(StrV("scroll_at"), [x |-> IntV(1), y |-> IntV(1),
                direction |-> StrV("up"), magnitude |-> IntV(200)]),
     JsonAction(StrV("scroll_document"), [direction |-> StrV("down")]),
     JsonAction(StrV("scroll_document"), [direction |-> StrV("diag")])}

Corpora(alphabet, max) == UNION {[1..n -> alphabet] : n \in 0..max}

\* the action kinds a caller asks about
CallNames == {"click_at", "scroll_at", "scroll_document", "drag_and_drop",
              "type_text_at", "wait_5_seconds"}

\* the outcomes of int(random.gauss(...)) tried for a dimension
GaussDraws(dim) == {-1, 0, dim - 1, dim}

Draws == 0..MaxDraw

\* the args mappings a caller proposes to a prior of screen size w x h
CallArgs(w, h) ==
    {EmptyDict,
     [x |-> IntV(0), y |-> IntV(0)],
     [x |-> IntV(w - 1), y |-> IntV(h - 1), text |-> StrV("t")],
     [x |-> IntV(w), y |-> IntV(0)],
     [x |-> IntV(1), y |-> IntV(-1)],
     [x |-> StrV("s"), y |-> IntV(1)],
     [x |-> IntV(1), y |-> IntV(1), direction |-> StrV("up"), magnitude |-> IntV(400)],
     [x |-> IntV(1), y |-> IntV(1), direction |-> StrV("sideways"),
      magnitude |-> StrV("big")],
     [direction |-> StrV("left"), text |-> StrV("t")],
     [direction |-> ListV]}

\* lines 78-145: the whole fitting pass over the steps of a corpus
RECURSIVE FitAll(_, _)
FitAll(b, c) == IF c = <<>> THEN b ELSE FitAll(FitOne(b, Head(c)), Tail(c))

FitFromEpisodes(b, c) == Finalize(FitAll(b, c))

\* the episodes directory fit_from_episodes is given: missing, or its entries
\* in the order iterdir() yields them
NoDirectory == [exists |-> FALSE, entries |-> <<>>]
Directory(entries) == [exists |-> TRUE, entries |-> entries]

\* an entry of the episodes directory: not a directory (line 86), a directory
\* without episode.json (line 89), one whose episode.json cannot be opened or
\* parsed (lines 91-92), one whose episode.json holds the given steps
NotADir    == [kind |-> "not_a_dir", steps |-> <<>>]
NoIndex    == [kind |-> "no_index", steps |-> <<>>]
Malformed  == [kind |-> "malformed", steps |-> <<>>]
Episode(c) == [kind |-> "episode", steps |-> c]

\* the actions found in the episode files of a directory
DirActions ==
    {JsonAction(StrV("click_at"), [x |-> IntV(2), y |-> IntV(1)]),
     JsonAction(StrV("scroll_document"), [direction |-> StrV("down")]),
     JsonAction(StrV("wait_5_seconds"), EmptyDict)}

Entries == {NotADir, NoIndex, Malformed} \cup {Episode(c) : c \in Corpora(DirActions, 1)}

Directories ==
    {NoDirectory} \cup {Directory(e) : e \in Corpora(Entries, MaxEpisodes)}

\* the steps fit_from_episodes reads from the entries, up to the first entry
\* that raises
RECURSIVE StepsRead(_)
StepsRead(entries) ==
    IF entries = <<>> \/ Head(entries).kind = "malformed" THEN <<>>
    ELSE Head(entries).steps \o StepsRead(Tail(entries))

\* mutant: the statistics are cleared before the error is raised
MissingDirectoryCleared(b) ==
    [bp |-> NewBehaviorPrior(<<b.screen_w, b.screen_h>>), raised |-> TRUE]

\* lines 82-83: raise FileNotFoundError
MissingDirectory(b) == [bp |-> b, raised |-> TRUE]

\* lines 85-137: the loop over the entries; open or json.load raising leaves
\* the loop and fit_from_episodes
RECURSIVE FitEntries(_, _)
FitEntries(b, entries) ==
    IF entries = <<>> THEN [bp |-> b, raised |-> FALSE]
    ELSE LET e == Head(entries)
         IN  IF e.kind \in {"not_a_dir", "no_index"} THEN FitEntries(b, Tail(entries))
             ELSE IF e.kind = "malformed" THEN [bp |-> b, raised |-> TRUE]
             ELSE FitEntries(FitAll(b, e.steps), Tail(entries))

\* lines 78-145: the prior after the call and whether the call raised
FitFromDirectory(b, d) ==
    IF ~d.exists THEN MissingDirectory(b)
    ELSE LET r == FitEntries(b, d.entries)
         IN  IF r.raised THEN r
             ELSE [bp |-> Finalize(r.bp), raised |-> FALSE]

\* no collection run is part of the life of a prior
CollectIdle ==
    /\ cfg = CollectConfig(0, 0, NoneList, 0)
    /\ screen = <<0, 0>>
    /\ pc = "idle"
    /\ epi = 0
    /\ t = 0
    /\ obs = NoObs
    /\ action = Unbound
    /\ steps = <<>>
    /\ episodes_meta = <<>>
    /\ saved = <<>>
    /\ rng = 0
    /\ now = 0
    /\ held = 0
    /\ acquired = 0
    /\ released = 0
    /\ notes = <<>>
    /\ notes_meta = <<>>

\* line 73-76: BehaviorPrior(screen_size)
InitPrior ==
    /\ CollectIdle
    /\ \E size \in PriorScreens :
         /\ bp = NewBehaviorPrior(size)
         /\ orig = NewBehaviorPrior(size)
    /\ ppc = "new"
    /\ corpus = <<>>
    /\ heap = EmptyDict
    /\ call = NoCall

FitFrom(alphabet, max) ==
    /\ ppc = "new"
    /\ call = NoCall
    /\ \E c \in Corpora(alphabet, max) :
         /\ bp' = FitFromEpisodes(bp, c)
         /\ corpus' = c
    /\ ppc' = "fitted"
    /\ heap' = EmptyDict
    /\ call' = NoCall
    /\ UNCHANGED <<orig, cvars>>

\* fit_from_episodes over a corpus
Fit == FitFrom(FitActions, MaxFit)

\* fit_from_episodes over a corpus, before the prior is asked to sample
FitServe == FitFrom(ServeActions, MaxServeFit)

\* fit_from_episodes(episodes_dir) on a new prior, or a second time on a
\* fitted one
FitDirectory ==
    /\ ppc \in {"new", "fitted"}
    /\ Len(corpus) <= MaxRefit
    /\ call = NoCall
    /\ \E d \in Directories :
         LET r == FitFromDirectory(bp, d)
         IN  /\ bp' = r.bp
             /\ corpus' = corpus \o StepsRead(d.entries)
             /\ ppc' = IF r.raised THEN "failed" ELSE "fitted"
             /\ call' = [op |-> "fit_from_episodes", dir |-> d, before |-> bp,
                         raised |-> r.raised]
    /\ heap' = EmptyDict
    /\ UNCHANGED <<orig, cvars>>

\* save(path) followed by load(path)
SaveLoad ==
    /\ ppc = "fitted"
    /\ call = NoCall
    /\ orig' = bp
    /\ bp' = Load(Save(bp))
    /\ ppc' = "loaded"
    /\ heap' = EmptyDict
    /\ call' = NoCall
    /\ UNCHANGED <<corpus, cvars>>

\* a snapshot file written by hand for a screen: a document of the form save
\* writes, whose direction histograms hold a direction counted 0
Snapshot(size) ==
    [screen_size |-> size,
     action_counts |-> [k \in {"scroll_document", "scroll_at"} |->
                          IF k = "scroll_document" THEN 3 ELSE 2],
     action_stats |->
        [k \in {"scroll_document", "scroll_at"} |->
            IF k = "scroll_document"
            THEN [count |-> 3, mean_x |-> NoneF, mean_y |-> NoneF,
                  std_x |-> NoneF, std_y |-> NoneF,
                  direction_counts |-> <<[k |-> "up", c |-> 0],
                                         [k |-> "down", c |-> 2],
                                         [k |-> "left", c |-> 1]>>,
                  magnitudes |-> <<>>]
            ELSE [count |-> 2, mean_x |-> SomeF(FInt(1)), mean_y |-> SomeF(FInt(1)),
                  std_x |-> SomeF(FInt(1)), std_y |-> SomeF(FInt(1)),
                  direction_counts |-> <<[k |-> "left", c |-> 1],
                                         [k |-> "right", c |-> 0],
                                         [k |-> "up", c |-> 1]>>,
                  magnitudes |-> <<400, 800>>]]]

\* BehaviorPrior.load(path) of a snapshot not written by save
LoadSnapshot ==
    /\ ppc = "new"
    /\ call = NoCall
    /\ bp' = Load(Snapshot(<<bp.screen_w, bp.screen_h>>))
    /\ ppc' = "restored"
    /\ heap' = EmptyDict
    /\ UNCHANGED <<orig, corpus, call, cvars>>

\* whether sample_coordinates(name) draws from random.gauss (lines 180-181)
DrawsGauss(b, name) ==
    /\ name \in DOMAIN b.action_stats
    /\ ~b.action_stats[name].mean_x.isNone

\* whether validate_or_adjust(name, args) calls sample_coordinates (line 230)
\* and so may draw from random.gauss
RepairsCoords(b, name, a) ==
    /\ name \in CoordActions
    /\ NeedCoords(b, Get(a, "x"), Get(a, "y"))
    /\ DrawsGauss(b, name)

\* the draws a call makes: those it does not make are not enumerated
GaussOf(used, dim) == IF used THEN GaussDraws(dim) ELSE {0}
DrawsOf(used) == IF used THEN Draws ELSE {0}

\* the calls of random.* made by sample_coordinates (lines 180-181),
\* sample_scroll (lines 193, 202, 207, 209) and validate_or_adjust (lines
\* 230, 236)
CoordDraws(b, name) == IF DrawsGauss(b, name) THEN 2 ELSE 0
ScrollDraws(at) == IF at THEN 2 ELSE 1
ValidateDraws(b, name, a) ==
    (IF RepairsCoords(b, name, a) THEN 2 ELSE 0)
    + (IF name \in {"scroll_at", "scroll_document"}
       THEN ScrollDraws(name = "scroll_at") ELSE 0)

\* the call draws n times from the module-level generator `random`: every
\* random.gauss, random.randint and random.choice advances it
Consume(n) == rng' = RngAdvance(rng, n)

\* action_prob(name)
ActionProbCall ==
    /\ call = NoCall
    /\ \E name \in CallNames :
         call' = [op |-> "action_prob", name |-> name, rng0 |-> rng,
                  result |-> ActionProb(bp, name)]
    /\ heap' = EmptyDict
    /\ UNCHANGED <<bp, orig, ppc, corpus, cvars>>

\* sample_coordinates(name)
SampleCoordinatesCall ==
    /\ call = NoCall
    /\ \E name \in CallNames :
         \E gx \in GaussOf(DrawsGauss(bp, name), bp.screen_w),
            gy \in GaussOf(DrawsGauss(bp, name), bp.screen_h) :
           /\ call' = [op |-> "sample_coordinates", name |-> name, gx |-> gx,
                       gy |-> gy, rng0 |-> rng,
                       result |-> SampleCoordinates(bp, name, gx, gy)]
           /\ Consume(CoordDraws(bp, name))
    /\ heap' = EmptyDict
    /\ UNCHANGED <<bp, orig, ppc, corpus, cvarsButRng>>

\* sample_scroll(at)
SampleScrollCall ==
    /\ call = NoCall
    /\ \E at \in BOOLEAN, ud \in Draws, um \in Draws :
         /\ call' = [op |-> "sample_scroll", at |-> at, ud |-> ud, um |-> um,
                     rng0 |-> rng, result |-> SampleScroll(bp, at, ud, um)]
         /\ Consume(ScrollDraws(at))
    /\ heap' = EmptyDict
    /\ UNCHANGED <<bp, orig, ppc, corpus, cvarsButRng>>

\* validate_or_adjust(name, args): the caller's mapping is object 1, or args
\* is None
ValidateCall ==
    /\ call = NoCall
    /\ \E name \in CallNames, noneArgs \in BOOLEAN,
          a \in CallArgs(bp.screen_w, bp.screen_h) :
         /\ noneArgs => a = EmptyDict
         /\ \E gx \in GaussOf(RepairsCoords(bp, name, a), bp.screen_w),
               gy \in GaussOf(RepairsCoords(bp, name, a), bp.screen_h),
               ud \in DrawsOf(name \in {"scroll_at", "scroll_document"}),
               um \in DrawsOf(name = "scroll_at") :
              LET h0  == IF noneArgs THEN EmptyDict ELSE [r \in {1} |-> a]
                  ref == IF noneArgs THEN NoneRef ELSE 1
                  r   == ValidateOrAdjust(bp, name, h0, ref, gx, gy, ud, um)
              IN  /\ heap' = r.heap
                  /\ call' = [op |-> "validate_or_adjust", name |-> name,
                              args |-> ref, before |-> h0, out |-> r.out,
                              raised |-> r.raised, again |-> FALSE,
                              first |-> h0, out2 |-> NoneRef, rng0 |-> rng]
                  /\ Consume(ValidateDraws(bp, name, a))
    /\ UNCHANGED <<bp, orig, ppc, corpus, cvarsButRng>>

\* validate_or_adjust(name, out) on the mapping the last call returned
ValidateAgain ==
    /\ call.op = "validate_or_adjust"
    /\ ~call.raised
    /\ ~call.again
    /\ \E gx \in GaussOf(RepairsCoords(bp, call.name, heap[call.out]), bp.screen_w),
          gy \in GaussOf(RepairsCoords(bp, call.name, heap[call.out]), bp.screen_h),
          ud \in DrawsOf(call.name \in {"scroll_at", "scroll_document"}),
          um \in DrawsOf(call.name = "scroll_at") :
         LET r == ValidateOrAdjust(bp, call.name, heap, call.out, gx, gy, ud, um)
         IN  /\ heap' = r.heap
             /\ call' = [call EXCEPT !.again = TRUE, !.first = heap,
                                     !.out2 = r.out, !.raised = r.raised,
                                     !.rng0 = rng]
    /\ Consume(ValidateDraws(bp, call.name, heap[call.out]))
    /\ UNCHANGED <<bp, orig, ppc, corpus, cvarsButRng>>

NextFit ==
    \/ Fit
    \/ FitDirectory
    \/ SaveLoad
    \/ ActionProbCall

SpecFit == InitPrior /\ [][NextFit]_vars

NextPrior ==
    \/ FitServe
    \/ SaveLoad
    \/ LoadSnapshot
    \/ ActionProbCall
    \/ SampleCoordinatesCall
    \/ SampleScrollCall
    \/ ValidateCall
    \/ ValidateAgain

SpecPrior == InitPrior /\ [][NextPrior]_vars

-----------------------------------------------------------------------------
(* Properties of collect_episodes.                                         *)

\* every StepRecord recorded so far, finished episodes and the running one,
\* each with the note of what its step did
RecordedSteps ==
    UNION {{[rec |-> episodes_meta[k].steps[i], note |-> notes_meta[k][i]] :
              i \in 1..Len(episodes_meta[k].steps)} : k \in 1..Len(episodes_meta)}
    \cup {[rec |-> steps[i], note |-> notes[i]] : i \in 1..Len(steps)}

\* a whitelist is configured and the url's host ends with none of its suffixes
HostOutside(url, whitelist) ==
    /\ ~Falsy(whitelist)
    /\ ~url.parse_raises
    /\ \A i \in 1..Len(whitelist.list) : ~EndsWith(url.netloc, whitelist.list[i])

NavigateHome == ActionRecord("navigate", [url |-> cfg.initial_url])

\* C1: with a non-empty whitelist, every step whose current observation's host
\* ends with none of the whitelisted suffixes is recorded with the action
\* navigate to cfg.initial_url, whatever was sampled before it.
C1_GuardedStepRecordsNavigate ==
    \A r \in RecordedSteps :
        HostOutside(r.rec.obs.url, cfg.whitelist_domains)
            => r.rec.action = NavigateHome

\* C2: a dispatch that raises does not shorten the episode: every finished
\* episode holds max_steps_per_episode StepRecords, every step whose dispatch
\* raised is recorded, and its next_obs is the State current_state() returned.
C2_FailedDispatchKeepsEpisode ==
    /\ \A k \in 1..Len(episodes_meta) :
          Len(episodes_meta[k].steps) = cfg.max_steps_per_episode
    /\ \A r \in RecordedSteps :
          r.note.failed => r.rec.next_obs.url = r.note.state_url

\* an episode of three steps whose second dispatch raised has been returned,
\* and current_state() answered another url than the step started from
C2_Witness ==
    /\ pc = "done"
    /\ \E k \in 1..Len(episodes_meta) :
          /\ Len(episodes_meta[k].steps) = 3
          /\ notes_meta[k][2].failed
          /\ ~notes_meta[k][1].failed
          /\ episodes_meta[k].steps[2].next_obs.url # episodes_meta[k].steps[2].obs.url

\* C3: without a whitelist every finished episode holds exactly
\* max_steps_per_episode StepRecords, with step_index 1, 2, ..., in order.
C3_StepIndexSequence ==
    Falsy(cfg.whitelist_domains) =>
        /\ \A k \in 1..Len(episodes_meta) :
              /\ Len(episodes_meta[k].steps) = cfg.max_steps_per_episode
              /\ \A i \in 1..Len(episodes_meta[k].steps) :
                    episodes_meta[k].steps[i].step_index = i
        /\ \A i \in 1..Len(steps) : steps[i].step_index = i

\* a run without whitelist has returned an episode of three steps
C3_Witness ==
    /\ pc = "done"
    /\ cfg.whitelist_domains.isNone
    /\ cfg.max_steps_per_episode = 3
    /\ Len(episodes_meta) = 1
    /\ Len(episodes_meta[1].steps) = 3

\* C4: the environment is acquired once per episode and released on every
\* exit of the episode, normal or by exception: never two instances are held,
\* none is held between episodes or after the run, and every acquisition but
\* the running episode's has been released.
C4_ScopedEnvironment ==
    /\ held \in {0, 1}
    /\ pc \in {"open", "steps"} => held = 1 /\ acquired = epi + 1 /\ released = epi
    /\ pc \in {"episode", "done"} => held = 0 /\ acquired = epi /\ released = epi
    /\ pc = "raised" => held = 0 /\ acquired = epi + 1 /\ released = epi + 1
    /\ pc = "start" => held = 0 /\ acquired = 0 /\ released = 0

\* the second episode ended by an exception, after the first ended normally
C4_Witness ==
    /\ pc = "raised"
    /\ epi = 1
    /\ Len(episodes_meta) = 1
    /\ acquired = 2
    /\ released = 2

\* C14: no failure of an environment operation raises out of
\* collect_episodes: the run never ends by an exception.
C14_NothingRaisesOutOfCollect == pc # "raised"

RECURSIVE Flatten(_)
Flatten(ss) == IF ss = <<>> THEN <<>> ELSE Head(ss) \o Flatten(Tail(ss))

\* the episode being collected has steps of its own
InEpisode == pc \in {"open", "steps", "raised"}

\* the notes and the recorded actions of the run so far, in the order of the
\* steps
RunNotes == Flatten(notes_meta) \o (IF InEpisode THEN notes ELSE <<>>)
RunActions ==
    LET recs == Flatten([k \in 1..Len(episodes_meta) |-> episodes_meta[k].steps])
                \o (IF InEpisode THEN steps ELSE <<>>)
    IN  [i \in 1..Len(recs) |-> recs[i].action]

\* the actions a sequence of steps records and the generator it leaves, as a
\* function of the generator s it starts with, the screen size, which steps
\* the guard overrode, and the local `action` it starts with
RECURSIVE Replay(_, _, _, _)
Replay(s, size, ns, a) ==
    IF ns = <<>> THEN [actions |-> <<>>, rng |-> s]
    ELSE IF Head(ns).guarded
         THEN LET rest == Replay(s, size, Tail(ns), a)
              IN  [actions |-> <<RecordedAction(a, cfg)>> \o rest.actions,
                   rng |-> rest.rng]
         ELSE LET r    == RandomAction(s, size)
                  rest == Replay(r.rng, size, Tail(ns), Bound(r.action))
              IN  [actions |-> <<r.action>> \o rest.actions, rng |-> rest.rng]

\* C15: the generator is seeded once per run: the actions recorded over all
\* episodes, and the generator after them, are a function of cfg.seed, the
\* screen size and the environment's answers alone, the draws of an episode
\* continuing those of the episode before it.
C15_SeededOncePerRun ==
    pc # "start" =>
        LET run == Replay(RngSeed(cfg.seed), screen, RunNotes, Unbound)
        IN  /\ RunActions = run.actions
            /\ rng = run.rng

\* two episodes were collected and returned, both sampled their step, and
\* the second drew another action than the first
C15_Witness ==
    /\ pc = "done"
    /\ Len(episodes_meta) = 2
    /\ cfg.max_steps_per_episode = 1
    /\ ~notes_meta[1][1].guarded
    /\ ~notes_meta[2][1].guarded
    /\ episodes_meta[1].steps[1].action # episodes_meta[2].steps[1].action

\* the generator at the start of finished episode k
EpisodeStartRng(k) ==
    Replay(RngSeed(cfg.seed), screen, Flatten(SubSeq(notes_meta, 1, k - 1)),
           Unbound).rng

\* C16: nothing but the generator crosses an episode boundary: the actions a
\* finished episode records are those the same answers of the environment and
\* the same draws give an episode that runs first.
C16_NoStateAcrossEpisodes ==
    \A k \in 1..Len(episodes_meta) :
        [i \in 1..Len(episodes_meta[k].steps) |-> episodes_meta[k].steps[i].action]
            = Replay(EpisodeStartRng(k), screen, notes_meta[k], Unbound).actions

\* C17: a step whose dispatch raised is recorded with the action sampled for
\* it, under the index of the step; the environment was asked the action once
\* and current_state once after it, and the step counter has moved on.
C17_FailedStepRecordsSampledAction ==
    /\ \A k \in 1..Len(episodes_meta) : \A i \in 1..Len(notes_meta[k]) :
          notes_meta[k][i].failed =>
              /\ episodes_meta[k].steps[i].action = notes_meta[k][i].sampled.val
              /\ episodes_meta[k].steps[i].step_index = i
              /\ notes_meta[k][i].ops
                    = <<DispatchOp(notes_meta[k][i].sampled.val), "current_state">>
    /\ InEpisode =>
          /\ \A i \in 1..Len(notes) :
                notes[i].failed =>
                    /\ notes[i].sampled.bound
                    /\ steps[i].action = notes[i].sampled.val
                    /\ steps[i].step_index = i
                    /\ notes[i].ops
                          = <<DispatchOp(notes[i].sampled.val), "current_state">>
          /\ pc = "steps" => t = Len(steps) + 1

\* the second step of an episode failed after a first that was sampled too,
\* and the loop stands at the third step
C17_Witness ==
    /\ pc = "steps"
    /\ t = 3
    /\ Len(steps) = 2
    /\ notes[2].failed
    /\ ~notes[1].guarded
    /\ ~notes[1].failed
    /\ steps[2].action = notes[2].sampled.val
    /\ steps[2].action # steps[1].action

\* a host can be parsed from the url
HasHost(url) == ~url.parse_raises /\ url.netloc # <<>>

\* C21: the guard overrides a step if and only if a non-empty whitelist is
\* configured and the host of the step's observation ends with none of its
\* suffixes; with no whitelist, or a url no host can be parsed from, the step
\* is not overridden and its action is sampled by the random policy.
C21_GuardIffHostOutside ==
    \A r \in RecordedSteps :
        /\ r.note.guarded <=>
              (HasHost(r.rec.obs.url)
               /\ HostOutside(r.rec.obs.url, cfg.whitelist_domains))
        /\ ~r.note.guarded => r.note.sampled.bound

\* the kinds the random policy samples
PolicyKinds == {"scroll_document", "scroll_at", "hover_at", "click_at",
                "wait_5_seconds", "go_back", "go_forward", "search"}

\* an action of the random policy: a kind of the safety-biased subset with
\* exactly the fields of its kind
PolicyShape(a) ==
    /\ a.name \in PolicyKinds
    /\ DOMAIN a.args =
          (IF a.name \in {"hover_at", "click_at"} THEN {"x", "y"}
           ELSE IF a.name = "scroll_at" THEN {"x", "y", "direction", "magnitude"}
           ELSE IF a.name = "scroll_document" THEN {"direction"}
           ELSE {})
    /\ DOMAIN a.args = RequiredArgs(a.name)

\* C22: every StepRecord carries either an action of the random policy, of a
\* kind of the safety-biased subset with exactly the fields of its kind, or
\* the guard's navigate with args url; nothing else is recorded, and nothing
\* else is asked of the environment as a step's action; the random policy
\* makes no other action from any state of the generator.
C22_RecordedActionShapes ==
    /\ \A r \in RecordedSteps :
          /\ PolicyShape(r.rec.action) \/ r.rec.action = NavigateHome
          /\ IF r.note.guarded THEN r.note.ops = <<"navigate">>
             ELSE /\ PolicyShape(r.note.sampled.val)
                  /\ r.note.ops[1] = r.note.sampled.val.name
    /\ \A s \in RngStates : PolicyShape(RandomAction(s, screen).action)

\* an episode was returned whose first step was guarded and recorded as
\* navigate and whose third recorded a sampled click_at with x and y
C22_Witness ==
    /\ pc = "done"
    /\ Len(episodes_meta) = 1
    /\ Len(episodes_meta[1].steps) = 3
    /\ notes_meta[1][1].guarded
    /\ episodes_meta[1].steps[1].action = NavigateHome
    /\ ~notes_meta[1][3].guarded
    /\ episodes_meta[1].steps[3].action.name = "click_at"
    /\ DOMAIN episodes_meta[1].steps[3].action.args = {"x", "y"}

\* the ranges of a sampled action's arguments on a W x H screen
InPolicyRanges(a, W, H) ==
    /\ a.name \in {"click_at", "hover_at"} =>
          /\ 10 <= a.args.x /\ a.args.x <= W - 10
          /\ 80 <= a.args.y /\ a.args.y <= H - 10
    /\ a.name = "scroll_at" =>
          /\ 10 <= a.args.x /\ a.args.x <= W - 10
          /\ 120 <= a.args.y /\ a.args.y <= H - 10
          /\ a.args.direction \in {"up", "down"}
          /\ a.args.magnitude \in {200, 400, 800}

\* C23: for every screen size the environment reports, a sampled click_at or
\* hover_at has 10 <= x <= W-10 and 80 <= y <= H-10, and a sampled scroll_at
\* has 10 <= x <= W-10, 120 <= y <= H-10, direction up or down and magnitude
\* 200, 400 or 800: every sampled coordinate lies on the screen.
C23_SampledCoordinatesInRange ==
    \A r \in RecordedSteps :
        ~r.note.guarded => InPolicyRanges(r.note.sampled.val, screen[1], screen[2])

\* the steps of episode k chain: the first starts from the observation
\* captured at the open, each later one from the next_obs of the one before
Chained(ss, k) ==
    /\ ss # <<>> => ss[1].obs.image_path = ImagePath(k, 0, "obs")
    /\ \A i \in 2..Len(ss) : ss[i].obs = ss[i - 1].next_obs

\* C24: in every episode the transitions chain: step 1's obs is the
\* observation captured from the open, and the obs of every later step is the
\* next_obs of the step before it, url, timestamp and image reference alike,
\* on guarded, successful and failed steps.
C24_TransitionsChain ==
    /\ \A k \in 1..Len(episodes_meta) :
          Chained(episodes_meta[k].steps, episodes_meta[k].episode_id)
    /\ pc = "steps" =>
          /\ Chained(steps, epi)
          /\ IF steps = <<>> THEN obs.image_path = ImagePath(epi, 0, "obs")
             ELSE obs = steps[Len(steps)].next_obs

\* an episode was returned whose first step was sampled and left the
\* whitelist, whose second was guarded and whose third failed
C24_Witness ==
    /\ pc = "done"
    /\ Len(episodes_meta) = 1
    /\ Len(episodes_meta[1].steps) = 3
    /\ ~notes_meta[1][1].guarded
    /\ notes_meta[1][2].guarded
    /\ notes_meta[1][3].failed
    /\ episodes_meta[1].steps[2].obs.url # episodes_meta[1].steps[1].obs.url
    /\ episodes_meta[1].steps[3].obs.url # episodes_meta[1].steps[2].obs.url
    /\ episodes_meta[1].steps[3].obs = episodes_meta[1].steps[2].next_obs

\* C25: episodes are collected one after the other and persisted only when
\* complete: an index record is written only for an episode whose step loop
\* recorded max_steps_per_episode steps and whose environment was released;
\* an episode starts only when the records of all episodes before it are
\* written; the run returns one EpisodeRecord per configured episode, in
\* collection order; an episode cut short by an exception has no index record.
C25_SequentialPersistence ==
    /\ Len(saved) = Len(episodes_meta)
    /\ \A k \in 1..Len(saved) :
          /\ saved[k] = k - 1
          /\ episodes_meta[k].episode_id = saved[k]
          /\ Len(episodes_meta[k].steps) = cfg.max_steps_per_episode
    /\ Len(saved) <= released
    /\ acquired <= Len(saved) + 1
    /\ InEpisode =>
          /\ acquired = Len(saved) + 1
          /\ Len(saved) = epi
          /\ epi < cfg.episodes
    /\ pc \in {"open", "steps"} => held = 1
    /\ pc = "done" => Len(episodes_meta) = cfg.episodes

\* the first episode is persisted; the second opened its browser and was
\* then cut short by an exception
C25_Witness ==
    /\ pc = "raised"
    /\ saved = <<0>>
    /\ epi = 1
    /\ t = 1
    /\ obs.image_path = ImagePath(1, 0, "obs")
    /\ Len(episodes_meta[1].steps) = 1
    /\ held = 0

-----------------------------------------------------------------------------
(* Properties of the behaviour prior.                                      *)

ScrollActions == {"scroll_at", "scroll_document"}

\* x and y are present, numbers, and on a w x h screen
OnScreen(a, w, h) ==
    /\ {"x", "y"} \subseteq DOMAIN a
    /\ IsNumber(a.x) /\ IsNumber(a.y)
    /\ 0 <= a.x.i /\ a.x.i < w
    /\ 0 <= a.y.i /\ a.y.i < h

\* a first validate_or_adjust call has returned a mapping
Validated == call.op = "validate_or_adjust" /\ ~call.again /\ ~call.raised

\* C5: the mapping validate_or_adjust returns is fully populated and
\* screen-valid: x, y on the screen for coordinate kinds, a direction among
\* up/down/left/right for scroll kinds, an integer magnitude for scroll_at, and
\* every argument the kind requires at execution present.
C5_ValidatedArgsComplete ==
    Validated =>
        LET out == heap[call.out] IN
        /\ call.name \in CoordActions => OnScreen(out, bp.screen_w, bp.screen_h)
        /\ call.name \in ScrollActions =>
              /\ "direction" \in DOMAIN out
              /\ IsStr(out.direction)
              /\ out.direction.s \in {"up", "down", "left", "right"}
        /\ call.name = "scroll_at" =>
              "magnitude" \in DOMAIN out /\ IsInt(out.magnitude)
        /\ RequiredArgs(call.name) \subseteq DOMAIN out

\* C6: sample_coordinates returns a point of the screen, (x, y) with
\* 0 <= x < W and 0 <= y < H, whatever the Gaussian draw was.
C6_SampledCoordinatesOnScreen ==
    call.op = "sample_coordinates" =>
        /\ call.result[1] \in 0..(bp.screen_w - 1)
        /\ call.result[2] \in 0..(bp.screen_h - 1)

\* a loaded prior with statistics for the kind drew beyond the right edge and
\* above the top edge, and the point returned is the nearest corner
C6_Witness ==
    /\ ppc = "loaded"
    /\ call.op = "sample_coordinates"
    /\ DrawsGauss(bp, call.name)
    /\ call.gx = bp.screen_w
    /\ call.gy = -1
    /\ call.result = <<bp.screen_w - 1, 0>>

\* C7: validate_or_adjust is idempotent on valid input: for a coordinate kind
\* and args whose x, y are on the screen, the second of two calls, given the
\* first one's output, returns the x and y of args.
C7_ValidateIdempotentOnValid ==
    (/\ call.op = "validate_or_adjust"
     /\ call.again
     /\ call.name \in CoordActions
     /\ call.args # NoneRef
     /\ OnScreen(call.before[call.args], bp.screen_w, bp.screen_h))
    => /\ ~call.raised
       /\ call.first[call.out].x = call.before[call.args].x
       /\ call.first[call.out].y = call.before[call.args].y
       /\ heap[call.out2].x = call.before[call.args].x
       /\ heap[call.out2].y = call.before[call.args].y

\* a fitted prior with scroll_at statistics was given on-screen coordinates
\* and an invalid direction, twice: the direction was repaired, the
\* coordinates were kept
C7_Witness ==
    /\ call.op = "validate_or_adjust"
    /\ call.again
    /\ call.name = "scroll_at"
    /\ DrawsGauss(bp, "scroll_at")
    /\ call.args # NoneRef
    /\ OnScreen(call.before[call.args], bp.screen_w, bp.screen_h)
    /\ "direction" \in DOMAIN call.before[call.args]
    /\ call.before[call.args].direction = StrV("sideways")
    /\ heap[call.out2].direction # StrV("sideways")
    /\ heap[call.out2].x = IntV(1)

\* the keys validate_or_adjust repairs
Repaired == {"x", "y", "direction", "magnitude"}

\* C8: validate_or_adjust returns a mapping without raising, leaves the
\* caller's mapping as it was, and carries every key it does not repair to the
\* output unchanged.
C8_ValidateNeverRejectsNorMutates ==
    (call.op = "validate_or_adjust" /\ ~call.again) =>
        /\ ~call.raised
        /\ call.out # NoneRef
        /\ call.args # NoneRef =>
              /\ heap[call.args] = call.before[call.args]
              /\ \A k \in DOMAIN call.before[call.args] \ Repaired :
                    /\ k \in DOMAIN heap[call.out]
                    /\ heap[call.out][k] = call.before[call.args][k]

\* the fields of ActionStats the snapshot is about
SameNumbers(a, b) ==
    /\ a.count = b.count
    /\ a.mean_x = b.mean_x /\ a.mean_y = b.mean_y
    /\ a.std_x = b.std_x /\ a.std_y = b.std_y

\* C9: load(save(prior)) has the screen size, the action_counts and, per
\* kind, the ActionStats contents of prior: count, mean_x, mean_y, std_x,
\* std_y, direction_counts and magnitudes.
C9_RoundTripIdentical ==
    ppc = "loaded" =>
        /\ bp.screen_w = orig.screen_w /\ bp.screen_h = orig.screen_h
        /\ bp.action_counts = orig.action_counts
        /\ DOMAIN bp.action_stats = DOMAIN orig.action_stats
        /\ \A k \in DOMAIN orig.action_stats :
              /\ SameNumbers(bp.action_stats[k], orig.action_stats[k])
              /\ bp.action_stats[k].direction_counts
                    = orig.action_stats[k].direction_counts
              /\ bp.action_stats[k].magnitudes = orig.action_stats[k].magnitudes

\* C9, amended: as C9, except that a direction_counts or magnitudes that is
\* None in prior is an empty Counter or list after load; the entries are the
\* same, and every sampling call answers a draw as it did before the save.
C9_RoundTripUpToNone ==
    ppc = "loaded" =>
        /\ bp.screen_w = orig.screen_w /\ bp.screen_h = orig.screen_h
        /\ bp.action_counts = orig.action_counts
        /\ DOMAIN bp.action_stats = DOMAIN orig.action_stats
        /\ \A k \in DOMAIN orig.action_stats :
              /\ SameNumbers(bp.action_stats[k], orig.action_stats[k])
              /\ ~bp.action_stats[k].direction_counts.isNone
              /\ ~bp.action_stats[k].magnitudes.isNone
              /\ bp.action_stats[k].direction_counts.items
                    = orig.action_stats[k].direction_counts.items
              /\ bp.action_stats[k].magnitudes.list
                    = orig.action_stats[k].magnitudes.list
        /\ \A name \in CallNames, gx \in GaussDraws(bp.screen_w),
              gy \in GaussDraws(bp.screen_h) :
              SampleCoordinates(bp, name, gx, gy)
                  = SampleCoordinates(orig, name, gx, gy)
        /\ \A at \in BOOLEAN, ud \in Draws, um \in Draws :
              SampleScroll(bp, at, ud, um) = SampleScroll(orig, at, ud, um)

\* a prior fitted on clicks and point scrolls was saved and loaded: click_at
\* had no histogram and no magnitude list and now has empty ones, scroll_at
\* has its magnitudes back
C9_Witness ==
    /\ ppc = "loaded"
    /\ {"click_at", "scroll_at"} \subseteq DOMAIN orig.action_stats
    /\ orig.action_stats["click_at"].count = 2
    /\ orig.action_stats["click_at"].direction_counts.isNone
    /\ orig.action_stats["click_at"].magnitudes.isNone
    /\ bp.action_stats["click_at"].direction_counts = Counter(<<>>)
    /\ bp.action_stats["scroll_at"].magnitudes = Mags(<<200>>)

\* the steps of the corpus with the given action kind
RECURSIVE OfKind(_, _)
OfKind(c, name) ==
    IF c = <<>> THEN <<>>
    ELSE IF Head(c).name = StrV(name) THEN <<Head(c)>> \o OfKind(Tail(c), name)
         ELSE OfKind(Tail(c), name)

\* whether a step carries a coordinate pair: its primary pair x, y, or else
\* its destination pair
HasCoords(a) ==
    \/ {"x", "y"} \subseteq DOMAIN a.args /\ IsNumber(a.args.x) /\ IsNumber(a.args.y)
    \/ /\ {"destination_x", "destination_y"} \subseteq DOMAIN a.args
       /\ IsNumber(a.args.destination_x) /\ IsNumber(a.args.destination_y)

\* the x (axis = "x") or y values recorded for a kind in the corpus
RECURSIVE CoordValues(_, _, _)
CoordValues(c, axis, daxis) ==
    IF c = <<>> THEN <<>>
    ELSE IF HasCoords(Head(c))
         THEN << IF axis \in DOMAIN Head(c).args /\ IsNumber(Head(c).args[axis])
                 THEN Head(c).args[axis].i ELSE Head(c).args[daxis].i >>
              \o CoordValues(Tail(c), axis, daxis)
         ELSE CoordValues(Tail(c), axis, daxis)

RECURSIVE Sum(_)
Sum(xs) == IF xs = <<>> THEN 0 ELSE Head(xs) + Sum(Tail(xs))

\* the whole-sample mean
DirectMean(xs) == Frac(Sum(xs), Len(xs))

RECURSIVE SquaredDeviations(_, _)
SquaredDeviations(xs, m) ==
    IF xs = <<>> THEN FInt(0)
    ELSE FAdd(FMul(FSub(FInt(Head(xs)), m), FSub(FInt(Head(xs)), m)),
              SquaredDeviations(Tail(xs), m))

\* the unbiased whole-sample variance, floored at 1.0
DirectVariance(xs) ==
    FMax(FDiv(SquaredDeviations(xs, DirectMean(xs)), Len(xs) - 1), FInt(1))

\* C10: after fitting, for every coordinate kind with count >= 2, mean_x and
\* mean_y are the whole-sample means and std_x and std_y the square roots of
\* the unbiased whole-sample variances (floored at 1.0) of the x and y values
\* recorded for the kind, coordinate 0 included.
C10_WelfordEqualsDirect ==
    ppc = "fitted" =>
        \A name \in CoordActions \cap DOMAIN bp.action_stats :
            LET st == bp.action_stats[name]
                xs == CoordValues(OfKind(corpus, name), "x", "destination_x")
                ys == CoordValues(OfKind(corpus, name), "y", "destination_y")
            IN  (st.count >= 2 /\ Len(xs) >= 2) =>
                    /\ st.mean_x = SomeF(DirectMean(xs))
                    /\ st.mean_y = SomeF(DirectMean(ys))
                    /\ st.std_x = SomeF(DirectVariance(xs))
                    /\ st.std_y = SomeF(DirectVariance(ys))

\* 20% of a screen dimension, as the radicand a standard deviation is kept as
TwentyPercent(dim) == FMul(Frac(dim, 5), Frac(dim, 5))

\* C11: after the full pass of fit_from_episodes every action kind observed
\* exactly once has std_x equal to 20% of screen_w and std_y equal to 20% of
\* screen_h, never zero, whether or not its observation carried coordinates.
C11_SingleObservationFallback ==
    ppc = "fitted" =>
        \A name \in DOMAIN bp.action_stats :
            bp.action_stats[name].count = 1 =>
                /\ bp.action_stats[name].std_x = SomeF(TwentyPercent(bp.screen_w))
                /\ bp.action_stats[name].std_y = SomeF(TwentyPercent(bp.screen_h))
                /\ Val(bp.action_stats[name].std_x).n # 0
                /\ Val(bp.action_stats[name].std_y).n # 0

\* a fit_from_episodes call over an existing episodes directory has ended
FittedDirectory == call.op = "fit_from_episodes" /\ call.dir.exists

\* the entries of a directory without those whose index file is missing,
\* unreadable or malformed
RECURSIVE WithoutSkipped(_)
WithoutSkipped(entries) ==
    IF entries = <<>> THEN <<>>
    ELSE IF Head(entries).kind \in {"no_index", "malformed"}
         THEN WithoutSkipped(Tail(entries))
         ELSE <<Head(entries)>> \o WithoutSkipped(Tail(entries))

\* C12: an episode whose index file is missing, unreadable or malformed is
\* skipped without raising: the call returns, and action_counts and
\* action_stats are those of fitting the directory with such episodes removed.
C12_MalformedEpisodeSkipped ==
    FittedDirectory =>
        LET clean == FitFromDirectory(call.before,
                                      Directory(WithoutSkipped(call.dir.entries)))
        IN  /\ ~call.raised
            /\ bp.action_counts = clean.bp.action_counts
            /\ bp.action_stats = clean.bp.action_stats

\* C13: when the episodes directory does not exist fit_from_episodes raises
\* and leaves action_counts and action_stats as they were before the call.
C13_MissingDirectoryFails ==
    (call.op = "fit_from_episodes" /\ ~call.dir.exists) =>
        /\ call.raised
        /\ bp.action_counts = call.before.action_counts
        /\ bp.action_stats = call.before.action_stats
        /\ ppc = "failed"

\* the call on a missing directory was made on a prior that had been fitted
C13_Witness ==
    /\ call.op = "fit_from_episodes"
    /\ ~call.dir.exists
    /\ call.raised
    /\ "click_at" \in DOMAIN call.before.action_counts
    /\ "click_at" \in DOMAIN bp.action_stats
    /\ bp.action_stats["click_at"].count = 1
    /\ ~bp.action_stats["click_at"].mean_x.isNone

\* the operations a fitted prior is asked by its callers
SamplingOps == {"action_prob", "sample_coordinates", "sample_scroll",
                "validate_or_adjust"}

\* the prior as constructing, fitting and loading left it
AsFitted ==
    IF ppc = "fitted" THEN FitFromEpisodes(orig, corpus) ELSE Load(Save(orig))

\* C18: action_prob, sample_coordinates, sample_scroll and validate_or_adjust
\* are read-only and free of side effects: after a call the screen size,
\* action_counts and action_stats are as fitting left them, and the random
\* generator the callers share is in the state it had before the call.
C18_SamplingIsReadOnly ==
    (call.op \in SamplingOps /\ ppc \in {"fitted", "loaded"}) =>
        /\ bp = AsFitted
        /\ rng = call.rng0

\* the named steps of a corpus, and those of one kind
RECURSIVE CountNamed(_)
CountNamed(c) ==
    IF c = <<>> THEN 0
    ELSE (IF Truthy(Head(c).name) THEN 1 ELSE 0) + CountNamed(Tail(c))

RECURSIVE CountKind(_, _)
CountKind(c, name) ==
    IF c = <<>> THEN 0
    ELSE (IF Head(c).name = StrV(name) THEN 1 ELSE 0) + CountKind(Tail(c), name)

RECURSIVE SumProb(_, _)
SumProb(b, names) ==
    IF names = {} THEN FInt(0)
    ELSE LET k == CHOOSE k \in names : TRUE
         IN  FAdd(ActionProb(b, k), SumProb(b, names \ {k}))

\* C19: after fitting, action_prob(kind) is the number of steps of that kind
\* over the number of named steps fitted, 0 for a kind not observed, the
\* values of the observed kinds summing to 1; with no action observed it is
\* 1.0 for every kind.
C19_ActionProbIsRelativeFrequency ==
    (call.op = "action_prob" /\ ppc \in {"new", "fitted", "loaded"}) =>
        IF CountNamed(corpus) = 0 THEN call.result = FInt(1)
        ELSE /\ call.result = Frac(CountKind(corpus, call.name), CountNamed(corpus))
             /\ SumProb(bp, DOMAIN bp.action_counts) = FInt(1)
             /\ \A k \in DOMAIN bp.action_counts : CountKind(corpus, k) > 0

\* a prior fitted from two click_at and one other step, saved and loaded,
\* answered 2/3 for click_at
C19_Witness ==
    /\ call.op = "action_prob"
    /\ ppc = "loaded"
    /\ Len(corpus) = 3
    /\ call.name = "click_at"
    /\ call.result = Frac(2, 3)

\* the count of the first i buckets of a histogram
Cumulative(items, i) == Total(SubSeq(items, 1, i))

\* the first bucket, in histogram order, whose cumulative count is at least r
FirstReaching(items, r) ==
    CHOOSE i \in 1..Len(items) :
        /\ Cumulative(items, i) >= r
        /\ \A j \in 1..(i - 1) : Cumulative(items, j) < r

\* the direction histogram sample_scroll(at) reads, empty when there is none
HistogramOf(b, at) ==
    LET name == IF at THEN "scroll_at" ELSE "scroll_document"
    IN  IF name \in DOMAIN b.action_stats
        THEN b.action_stats[name].direction_counts.items
        ELSE <<>>

\* C20: the direction sample_scroll returns is the cumulative-count inversion
\* of its draw: with a non-empty histogram of total T and the draw r in
\* [1, T], the first bucket whose cumulative count is >= r, so that count(d)
\* of the T draws return d and a direction counted 0 is never returned; with
\* no histogram, one of up, down for document scroll and one of up, down,
\* left, right for point scroll.
C20_ScrollDirectionInversion ==
    call.op = "sample_scroll" =>
        LET items == HistogramOf(bp, call.at)
            T     == Total(items)
        IN  IF items # <<>>
            THEN /\ call.result[1]
                      = items[FirstReaching(items, RandInt(1, T, call.ud))].k
                 /\ \A i \in 1..Len(items) :
                      Cardinality({r \in 1..T :
                          Walk(items, r, 0, items[1].k) = items[i].k}) = items[i].c
            ELSE IF call.at THEN call.result[1] \in {"up", "down", "left", "right"}
                 ELSE call.result[1] \in {"up", "down"}

\* the draw 3 on the histogram up: 0, down: 2, left: 1 returned left
C20_Witness ==
    /\ call.op = "sample_scroll"
    /\ ~call.at
    /\ HistogramOf(bp, FALSE)
          = <<[k |-> "up", c |-> 0], [k |-> "down", c |-> 2], [k |-> "left", c |-> 1]>>
    /\ RandInt(1, 3, call.ud) = 3
    /\ call.result[1] = "left"

====
